---- MODULE Spec2Model ----
(***************************************************************************)
(* Verification model of crqyder/engine: the raw byte region               *)
(* (binary/src/bytes.rs, binary/src/buffer.rs), the byte-order and VarInt  *)
(* codecs (binary/src/order.rs, binary/src/impls.rs) built on it.          *)
(***************************************************************************)
EXTENDS Integers, Sequences, FiniteSets, TLC

(* ------------------------------ bounds -------------------------------- *)
\* largest capacity handed to Buffer::new / zeroed / from
MaxCap == 2
\* largest length of a dst / src slice, of a peek and of an advance
MaxIo == 3
\* number of Buffer values created in one run (originals and split-off views)
MaxRegions == 3
\* number of backing allocations in one run
MaxAllocs == 1
\* number of calls other than drop in one run
MaxSteps == 3
\* capacity of the region a codec round trip writes into
WireCap == 12

(* --------------------------- machine model ---------------------------- *)
\* usize arithmetic is modular; the width is scaled to 30 bits so that the
\* model checker's integers hold every intermediate value.
UsizeModulus == 1073741824
\* content of a byte that alloc::alloc returned and nobody wrote
Uninit == -1
\* what a read outside a live allocation may yield
GarbageBytes == {0, 255}

VARIABLES
    overflow_checks, \* build profile: TRUE = debug (overflow panics), FALSE = release (wraps)
    heap,            \* the allocations: size, bytes, number of dealloc calls, size of the last one
    bufs,            \* the Buffer values ever created: ptr, cap, len, offset, owner, live
    panicked,        \* a panic is unwinding the thread: only destructors run
    last,            \* the last call: its arguments, its result and the state it started from
    steps,           \* number of calls made
    codec            \* the typed codec round trip (used by SpecCodec)

vars == <<overflow_checks, heap, bufs, panicked, last, steps, codec>>

Min(a, b) == IF a <= b THEN a ELSE b

\* a - b in usize: panics under overflow checks, wraps otherwise
SubPanics(a, b, oc) == oc /\ a < b
USub(a, b) == (a - b + UsizeModulus) % UsizeModulus
\* a + b in usize
AddPanics(a, b, oc) == oc /\ a + b >= UsizeModulus
UAdd(a, b) == (a + b) % UsizeModulus

\* the slice a caller hands in: n bytes base+1, base+2, ...; every call hands
\* in bytes no earlier call wrote (base = 10 * number of the call)
Slice(base, n) == [j \in 1..n |-> base + j]

(* ------------------------------ memory -------------------------------- *)
\* ptr.add(k): address k bytes after the region's pointer, relative to the
\* base of the region's allocation
PtrAdd(b, k) == UAdd(b.ptr, k)

InAlloc(h, a, addr) == h[a].released = 0 /\ addr < h[a].size

\* the byte ptr::copy finds at an address; g outside a live allocation
MemByte(h, a, addr, g) == IF InAlloc(h, a, addr) THEN h[a].data[addr + 1] ELSE g

\* ptr::copy(self.ptr.add(start), dst, size)
CopyOut(h, b, start, size, g) ==
    [j \in 1..size |-> MemByte(h, b.alloc, PtrAdd(b, UAdd(start, j - 1)), g)]

\* ptr::copy(src, self.ptr.add(start), size): the bytes that land in the allocation
CopyIn(h, b, start, src, size) ==
    [h EXCEPT ![b.alloc].data =
        [x \in 1..h[b.alloc].size |->
            IF \E j \in 1..size : PtrAdd(b, UAdd(start, j - 1)) = x - 1
            THEN src[CHOOSE j \in 1..size : PtrAdd(b, UAdd(start, j - 1)) = x - 1]
            ELSE h[b.alloc].data[x]]]

\* the copy touches an address outside a live allocation
Wild(h, b, start, size) ==
    \E j \in 1..size : ~InAlloc(h, b.alloc, PtrAdd(b, UAdd(start, j - 1)))

(* --------------------------- Buffer methods --------------------------- *)
NewBuffer(a, cap, len) ==
    [alloc |-> a, ptr |-> 0, cap |-> cap, len |-> len, offset |-> 0,
     owner |-> TRUE, live |-> TRUE]

\* Buffer::read: [panic, size, buf]
BufRead(b, n, oc) ==
    IF SubPanics(b.len, b.offset, oc)
    THEN [panic |-> TRUE, size |-> 0, buf |-> b]
    ELSE LET size == Min(n, USub(b.len, b.offset)) IN
         IF AddPanics(b.offset, size, oc)
         THEN [panic |-> TRUE, size |-> size, buf |-> b]
         ELSE [panic |-> FALSE, size |-> size,
               buf |-> [b EXCEPT !.offset = UAdd(b.offset, size)]]

\* Buffer::write: [panic, size, buf]
BufWrite(b, n, oc) ==
    IF SubPanics(b.cap, b.len, oc)
    THEN [panic |-> TRUE, size |-> 0, buf |-> b]
    ELSE LET size == Min(n, USub(b.cap, b.len)) IN
         IF AddPanics(b.len, size, oc)
         THEN [panic |-> TRUE, size |-> size, buf |-> b]
         ELSE [panic |-> FALSE, size |-> size,
               buf |-> [b EXCEPT !.len = UAdd(b.len, size)]]

\* Buffer::advance: [panic, ok, buf]
BufAdvance(b, n, oc) ==
    IF SubPanics(b.len, b.offset, oc)
    THEN [panic |-> TRUE, ok |-> FALSE, buf |-> b]
    ELSE IF USub(b.len, b.offset) < n
    THEN [panic |-> FALSE, ok |-> FALSE, buf |-> b]
    ELSE IF AddPanics(b.offset, n, oc)
    THEN [panic |-> TRUE, ok |-> FALSE, buf |-> b]
    ELSE [panic |-> FALSE, ok |-> TRUE, buf |-> [b EXCEPT !.offset = UAdd(b.offset, n)]]

\* Buffer::get: [panic, start, buf]; the cursor moves before the slice is taken
BufGet(b, n, advance, oc) ==
    IF AddPanics(b.offset, n, oc)
    THEN [panic |-> TRUE, start |-> b.offset, buf |-> b]
    ELSE LET start == b.offset
             end == UAdd(b.offset, n)
             moved == IF advance THEN [b EXCEPT !.offset = end] ELSE b
         IN  [panic |-> (start > end \/ end > b.len), start |-> start, buf |-> moved]

\* Buffer::split_at: [panic, left, right]
BufSplitAt(b, index, oc) ==
    IF SubPanics(b.cap, 1, oc) \/ ~(index <= USub(b.cap, 1))
       \/ SubPanics(b.cap, index, oc) \/ SubPanics(b.len, 1, oc)
    THEN [panic |-> TRUE, left |-> b, right |-> b]
    ELSE LET cap == USub(b.cap, index)
             moves == USub(b.len, 1) >= index
         IN  IF moves /\ SubPanics(b.len, index, oc)
             THEN [panic |-> TRUE, left |-> b, right |-> b]
             ELSE [panic |-> FALSE,
                   left  |-> [b EXCEPT !.len = IF moves THEN index ELSE b.len,
                                       !.cap = index, !.offset = 0],
                   right |-> [alloc |-> b.alloc, ptr |-> PtrAdd(b, index), cap |-> cap,
                              len |-> IF moves THEN USub(b.len, index) ELSE 0,
                              offset |-> 0, owner |-> FALSE, live |-> TRUE]]

\* a destructor that frees whatever it points into, owner or not
BufDropAlways(h, b) ==
    [h EXCEPT ![b.alloc].released = @ + 1, ![b.alloc].relsize = b.cap]

\* impl Drop for Buffer: the heap after the destructor
BufDrop(h, b) ==
    IF b.owner
    THEN [h EXCEPT ![b.alloc].released = @ + 1, ![b.alloc].relsize = b.cap]
    ELSE h

(* ------------------------------ actions ------------------------------- *)
NoCall == [op |-> "none", id |-> 0, n |-> 0, adv |-> FALSE, src |-> <<>>,
           ret |-> 0, out |-> <<>>, ok |-> TRUE, wild |-> FALSE,
           pre |-> <<>>, heap0 |-> <<>>, made |-> 0]

CodecIdle == [phase |-> "idle"]

Init ==
    /\ overflow_checks \in BOOLEAN
    /\ heap = <<>>
    /\ bufs = <<>>
    /\ panicked = FALSE
    /\ last = NoCall
    /\ steps = 0
    /\ codec = CodecIdle

CanCall == ~panicked /\ steps < MaxSteps
CanMake == CanCall /\ Len(bufs) < MaxRegions
Live == {i \in 1..Len(bufs) : bufs[i].live}

Allocate(op, cap, len, data) ==
    /\ CanMake /\ Len(heap) < MaxAllocs
    /\ heap' = Append(heap, [size |-> cap, data |-> data, released |-> 0, relsize |-> 0])
    /\ bufs' = Append(bufs, NewBuffer(Len(heap) + 1, cap, len))
    /\ last' = [NoCall EXCEPT !.op = op, !.id = Len(bufs) + 1, !.n = cap,
                              !.made = Len(bufs) + 1]
    /\ steps' = steps + 1
    /\ UNCHANGED <<overflow_checks, panicked, codec>>

\* Buffer::new(cap)
New == \E cap \in 0..MaxCap : Allocate("new", cap, 0, [j \in 1..cap |-> Uninit])

\* Buffer::zeroed(cap)
Zeroed == \E cap \in 0..MaxCap : Allocate("zeroed", cap, cap, [j \in 1..cap |-> 0])

\* Buffer::from(Vec<u8>)
FromVec == \E n \in 0..MaxCap : Allocate("from", n, n, Slice(10 * (steps + 1), n))

Read ==
    \E i \in Live, n \in 0..MaxIo, g \in GarbageBytes :
        LET b == bufs[i]
            r == BufRead(b, n, overflow_checks)
        IN  /\ CanCall
            /\ Wild(heap, b, b.offset, r.size) \/ g = 0
            /\ bufs' = [bufs EXCEPT ![i] = r.buf]
            /\ panicked' = r.panic
            /\ last' = [NoCall EXCEPT !.op = "read", !.id = i, !.n = n, !.ret = r.size,
                            !.out = CopyOut(heap, b, b.offset, r.size, g),
                            !.ok = ~r.panic, !.wild = Wild(heap, b, b.offset, r.size),
                            !.pre = b, !.heap0 = heap]
            /\ steps' = steps + 1
            /\ UNCHANGED <<overflow_checks, heap, codec>>

Write ==
    \E i \in Live, n \in 0..MaxIo :
        LET b == bufs[i]
            src == Slice(10 * (steps + 1), n)
            r == BufWrite(b, n, overflow_checks)
        IN  /\ CanCall
            /\ heap' = CopyIn(heap, b, b.len, src, r.size)
            /\ bufs' = [bufs EXCEPT ![i] = r.buf]
            /\ panicked' = r.panic
            /\ last' = [NoCall EXCEPT !.op = "write", !.id = i, !.n = n, !.src = src,
                            !.ret = r.size, !.ok = ~r.panic,
                            !.wild = Wild(heap, b, b.len, r.size),
                            !.pre = b, !.heap0 = heap]
            /\ steps' = steps + 1
            /\ UNCHANGED <<overflow_checks, codec>>

Advance ==
    \E i \in Live, n \in 0..MaxIo :
        LET b == bufs[i]
            r == BufAdvance(b, n, overflow_checks)
        IN  /\ CanCall
            /\ bufs' = [bufs EXCEPT ![i] = r.buf]
            /\ panicked' = r.panic
            /\ last' = [NoCall EXCEPT !.op = "advance", !.id = i, !.n = n,
                            !.ok = r.ok, !.pre = b, !.heap0 = heap]
            /\ steps' = steps + 1
            /\ UNCHANGED <<overflow_checks, heap, codec>>

Get ==
    \E i \in Live, n \in 0..MaxIo, adv \in BOOLEAN, g \in GarbageBytes :
        LET b == bufs[i]
            r == BufGet(b, n, adv, overflow_checks)
        IN  /\ CanCall
            /\ (~r.panic /\ Wild(heap, b, r.start, n)) \/ g = 0
            /\ bufs' = [bufs EXCEPT ![i] = r.buf]
            /\ panicked' = r.panic
            /\ last' = [NoCall EXCEPT !.op = "get", !.id = i, !.n = n, !.adv = adv,
                            !.out = IF r.panic THEN <<>> ELSE CopyOut(heap, b, r.start, n, g),
                            !.ok = ~r.panic,
                            !.wild = ~r.panic /\ Wild(heap, b, r.start, n),
                            !.pre = b, !.heap0 = heap]
            /\ steps' = steps + 1
            /\ UNCHANGED <<overflow_checks, heap, codec>>

SplitAt ==
    \E i \in Live, index \in 0..MaxCap :
        LET b == bufs[i]
            r == BufSplitAt(b, index, overflow_checks)
        IN  /\ CanMake
            /\ bufs' = IF r.panic THEN bufs
                       ELSE Append([bufs EXCEPT ![i] = r.left], r.right)
            /\ panicked' = r.panic
            /\ last' = [NoCall EXCEPT !.op = "split_at", !.id = i, !.n = index,
                            !.ok = ~r.panic, !.pre = b, !.heap0 = heap,
                            !.made = IF r.panic THEN 0 ELSE Len(bufs) + 1]
            /\ steps' = steps + 1
            /\ UNCHANGED <<overflow_checks, heap, codec>>

\* a Buffer goes out of scope (also while a panic unwinds)
Drop ==
    \E i \in Live :
        LET b == bufs[i] IN
            /\ heap' = BufDrop(heap, b)
            /\ bufs' = [bufs EXCEPT ![i].live = FALSE]
            /\ last' = [NoCall EXCEPT !.op = "drop", !.id = i, !.pre = b, !.heap0 = heap]
            /\ UNCHANGED <<overflow_checks, panicked, steps, codec>>

Next == New \/ Zeroed \/ FromVec \/ Read \/ Write \/ Advance \/ Get \/ SplitAt \/ Drop

Spec == Init /\ [][Next]_vars

(* ------------------------- fixed-width integers ----------------------- *)
\* An integer of width w is its w bits, least significant first (two's
\* complement for the signed types); a byte is a number in 0..255.
Bits(n, w) == [i \in 1..w |-> IF i <= 31 THEN (n \div (2 ^ (i - 1))) % 2 ELSE 0]
AllOnes(w) == [i \in 1..w |-> 1]
TopBit(w) == [i \in 1..w |-> IF i = w THEN 1 ELSE 0]
AllButTop(w) == [i \in 1..w |-> IF i = w THEN 0 ELSE 1]

Reverse(s) == [i \in 1..Len(s) |-> s[Len(s) + 1 - i]]

\* v as u8
AsU8(v) == v[1] + 2 * v[2] + 4 * v[3] + 8 * v[4]
           + 16 * v[5] + 32 * v[6] + 64 * v[7] + 128 * v[8]
\* v >> k (unsigned), v << k, !v, a | b, v as uN
Shr(v, k) == [i \in 1..Len(v) |-> IF i + k <= Len(v) THEN v[i + k] ELSE 0]
Shl(v, k) == [i \in 1..Len(v) |-> IF i - k >= 1 THEN v[i - k] ELSE 0]
Not(v) == [i \in 1..Len(v) |-> 1 - v[i]]
Or(a, b) == [i \in 1..Len(a) |-> IF a[i] = 1 \/ b[i] = 1 THEN 1 ELSE 0]
Cast(v, w) == [i \in 1..w |-> IF i <= Len(v) THEN v[i] ELSE 0]

\* uN::to_le_bytes / to_be_bytes / from_le_bytes / from_be_bytes
ToLeBytes(v) == [k \in 1..(Len(v) \div 8) |-> AsU8(Shr(v, 8 * (k - 1)))]
ToBeBytes(v) == Reverse(ToLeBytes(v))
FromLeBytes(bs) ==
    [i \in 1..(8 * Len(bs)) |-> (bs[((i - 1) \div 8) + 1] \div (2 ^ ((i - 1) % 8))) % 2]
FromBeBytes(bs) == FromLeBytes(Reverse(bs))

(* ------------------- the region as the codecs see it ------------------ *)
\* A region by value: capacity, written bytes (length = Len(data)), cursor.
EmptyWire(cap) == [cap |-> cap, data |-> <<>>, offset |-> 0]

\* Buffer::write(src): the first min(src.len, capacity - length) bytes land
WireWrite(buf, src) ==
    [buf EXCEPT !.data = @ \o SubSeq(src, 1, Min(Len(src), buf.cap - Len(buf.data)))]

\* Buffer::read(dst) on a zeroed dst of n bytes: [size, bytes, buf]
WireRead(buf, n) ==
    LET size == Min(n, Len(buf.data) - buf.offset) IN
    [size  |-> size,
     bytes |-> [j \in 1..n |-> IF j <= size THEN buf.data[buf.offset + j] ELSE 0],
     buf   |-> [buf EXCEPT !.offset = @ + size]]

Some(v, buf) == [kind |-> "some", val |-> v, buf |-> buf]
None(buf) == [kind |-> "none", val |-> <<>>, buf |-> buf]
Panic(buf) == [kind |-> "panic", val |-> <<>>, buf |-> buf]

\* impl_unordered!(U8, u8, 1)
U8Serialize(b, buf) == WireWrite(buf, <<b>>)
U8Deserialize(buf) ==
    LET r == WireRead(buf, 1) IN
    IF r.size = 1 THEN Some(r.bytes[1], r.buf) ELSE None(r.buf)

(* ------------------------------ ByteOrder ----------------------------- *)
\* LE::write_u16 .. write_i64 and BE::write_u16 .. write_i64
LE_write(v, buf) == WireWrite(buf, ToLeBytes(v))
BE_write(v, buf) == WireWrite(buf, ToBeBytes(v))

\* a read that hands out a value whatever the count of bytes it received
LE_readUnchecked(n, buf) ==
    LET r == WireRead(buf, n) IN Some(FromLeBytes(r.bytes), r.buf)

\* LE::read_u16 .. read_i64 and BE::read_u16 .. read_i64, n = width in bytes
LE_read(n, buf) ==
    LET r == WireRead(buf, n) IN
    IF r.size = n THEN Some(FromLeBytes(r.bytes), r.buf) ELSE None(r.buf)
BE_read(n, buf) ==
    LET r == WireRead(buf, n) IN
    IF r.size = n THEN Some(FromBeBytes(r.bytes), r.buf) ELSE None(r.buf)

\* LE::write_u24 / LE::read_u24 (the value travels as a u32)
LE_write_u24(val, buf) ==
    WireWrite(buf, <<AsU8(val), AsU8(Shr(val, 8)), AsU8(Shr(val, 16))>>)
LE_read_u24(buf) ==
    LET r == WireRead(buf, 3) IN
    IF r.size = 3
    THEN Some(Or(Or(Bits(r.bytes[1], 32), Shl(Bits(r.bytes[2], 32), 8)),
                 Shl(Bits(r.bytes[3], 32), 16)), r.buf)
    ELSE None(r.buf)

\* BE::write_u24 / BE::read_u24
BE_write_u24(val, buf) ==
    WireWrite(buf, <<AsU8(Shr(val, 16)), AsU8(Shr(val, 8)), AsU8(val)>>)
BE_read_u24(buf) ==
    LET r == WireRead(buf, 3) IN
    IF r.size = 3
    THEN Some(Or(Or(Shl(Bits(r.bytes[3], 32), 16), Shl(Bits(r.bytes[2], 32), 8)),
                 Bits(r.bytes[1], 32)), r.buf)
    ELSE None(r.buf)

(* ------------------------------- VarInt ------------------------------- *)
\* u >= 0x40: a loop that leaves one bit less in the last group
HasMoreGroupsFromBit7(u) == \E i \in 7..Len(u) : u[i] = 1

\* u >= 0x80
HasMoreGroups(u) == \E i \in 8..Len(u) : u[i] = 1

\* the loop of VarU32::serialize / VarU64::serialize (and of the signed ones)
RECURSIVE VarEmit(_, _)
VarEmit(u, buf) ==
    IF HasMoreGroups(u)
    THEN VarEmit(Shr(u, 7), U8Serialize((AsU8(u) % 128) + 128, buf))
    ELSE U8Serialize(AsU8(u), buf)

\* the loop of VarU32::deserialize (limit 35) / VarU64::deserialize (limit 70):
\* i is the shift of the next group, v the value so far
RECURSIVE VarCollect(_, _, _, _)
VarCollect(buf, limit, i, v) ==
    IF i >= limit THEN Panic(buf)
    ELSE LET r == U8Deserialize(buf) IN
         IF r.kind = "none" THEN None(r.buf)
         ELSE LET v2 == Or(v, Shl(Bits(r.val % 128, Len(v)), i)) IN
              IF r.val < 128 THEN Some(v2, r.buf)
              ELSE VarCollect(r.buf, limit, i + 7, v2)

VarU32Serialize(u, buf) == VarEmit(u, buf)
VarU32Deserialize(buf) == VarCollect(buf, 35, 0, Bits(0, 32))
VarU64Serialize(u, buf) == VarEmit(u, buf)
VarU64Deserialize(buf) == VarCollect(buf, 70, 0, Bits(0, 64))

\* x = (ux >> 1) as iN; if ux & 1 != 0 { x = !x }
UnZigZag(ux) == IF ux[1] = 1 THEN Not(Shr(ux, 1)) ELSE Shr(ux, 1)

\* VarI32::serialize: ux = (u as u32) << 1; if u < 0 { ux = !ux }
VarI32Serialize(u, buf) ==
    LET ux == Shl(Cast(u, 32), 1) IN
    VarEmit(IF u[Len(u)] = 1 THEN Not(ux) ELSE ux, buf)
VarI32Deserialize(buf) ==
    LET r == VarCollect(buf, 35, 0, Bits(0, 32)) IN
    IF r.kind = "some" THEN Some(UnZigZag(r.val), r.buf) ELSE r

\* VarI64::serialize: ux = (u as u32) << 1; if u < 0 { ux = !ux }
VarI64Serialize(u, buf) ==
    LET ux == Shl(Cast(u, 32), 1) IN
    VarEmit(IF u[Len(u)] = 1 THEN Not(ux) ELSE ux, buf)
VarI64Deserialize(buf) ==
    LET r == VarCollect(buf, 70, 0, Bits(0, 64)) IN
    IF r.kind = "some" THEN Some(UnZigZag(r.val), r.buf) ELSE r

(* ------------------------- typed codec protocol ----------------------- *)
FixedTypes == {"U16", "I16", "U24", "U32", "I32", "U64", "I64"}
VarTypes == {"VarU32", "VarI32", "VarU64", "VarI64"}
Orders == {"LE", "BE"}

\* width in bits of the value a wrapper holds
Width(ty) ==
    CASE ty \in {"U16", "I16"} -> 16
      [] ty \in {"U24", "U32", "I32", "VarU32", "VarI32"} -> 32
      [] ty \in {"U64", "I64", "VarU64", "VarI64"} -> 64

\* bytes on the wire of a fixed-width wrapper
WireBytes(ty) == IF ty = "U24" THEN 3 ELSE Width(ty) \div 8

\* <wrapper>::serialize(&self, buf)
Serialize(ty, order, v, buf) ==
    CASE ty = "U24" /\ order = "LE" -> LE_write_u24(v, buf)
      [] ty = "U24" /\ order = "BE" -> BE_write_u24(v, buf)
      [] ty \in FixedTypes \ {"U24"} /\ order = "LE" -> LE_write(v, buf)
      [] ty \in FixedTypes \ {"U24"} /\ order = "BE" -> BE_write(v, buf)
      [] ty = "VarU32" -> VarU32Serialize(v, buf)
      [] ty = "VarI32" -> VarI32Serialize(v, buf)
      [] ty = "VarU64" -> VarU64Serialize(v, buf)
      [] ty = "VarI64" -> VarI64Serialize(v, buf)

\* <wrapper>::deserialize(buf)
Deserialize(ty, order, buf) ==
    CASE ty = "U24" /\ order = "LE" -> LE_read_u24(buf)
      [] ty = "U24" /\ order = "BE" -> BE_read_u24(buf)
      [] ty \in FixedTypes \ {"U24"} /\ order = "LE" -> LE_read(WireBytes(ty), buf)
      [] ty \in FixedTypes \ {"U24"} /\ order = "BE" -> BE_read(WireBytes(ty), buf)
      [] ty = "VarU32" -> VarU32Deserialize(buf)
      [] ty = "VarI32" -> VarI32Deserialize(buf)
      [] ty = "VarU64" -> VarU64Deserialize(buf)
      [] ty = "VarI64" -> VarI64Deserialize(buf)

(* ------------------------- codec round trips -------------------------- *)
\* number of payload bits of the wrapper (24 for U24, else the width)
ValueBits(ty) == IF ty = "U24" THEN 24 ELSE Width(ty)

\* The values a round trip is tried on: 0, 1, 0x7F, 0x80, 0xFF, 0x100, 300,
\* 0x0201, 0x1234567, the largest and smallest signed value, all ones, and
\* the value whose k-th byte is k.
SampleValues(ty) ==
    LET w == ValueBits(ty) IN
    { Cast(v, Width(ty)) :
        v \in {Bits(n, w) : n \in {0, 1, 127, 128, 255, 256, 300, 513, 19088743}}
              \cup {AllOnes(w), TopBit(w), AllButTop(w),
                    FromLeBytes([k \in 1..(w \div 8) |-> k])} }

CodecCases ==
    {[ty |-> ty, order |-> o] : ty \in FixedTypes, o \in Orders}
    \cup {[ty |-> ty, order |-> "LE"] : ty \in VarTypes}

InitCodec ==
    /\ overflow_checks = FALSE
    /\ heap = <<>>
    /\ bufs = <<>>
    /\ panicked = FALSE
    /\ last = NoCall
    /\ steps = 0
    /\ \E c \in CodecCases : \E v \in SampleValues(c.ty) :
          codec = [phase |-> "value", ty |-> c.ty, order |-> c.order, val |-> v,
                   buf |-> EmptyWire(WireCap), out |-> None(EmptyWire(WireCap))]

\* value.serialize(&mut buffer)
DoSerialize ==
    /\ codec.phase = "value"
    /\ codec' = [codec EXCEPT !.phase = "written",
                              !.buf = Serialize(codec.ty, codec.order, codec.val, codec.buf)]
    /\ UNCHANGED <<overflow_checks, heap, bufs, panicked, last, steps>>

\* T::deserialize(&mut buffer)
DoDeserialize ==
    /\ codec.phase = "written"
    /\ LET r == Deserialize(codec.ty, codec.order, codec.buf) IN
       codec' = [codec EXCEPT !.phase = "read", !.buf = r.buf, !.out = r]
    /\ UNCHANGED <<overflow_checks, heap, bufs, panicked, last, steps>>

NextCodec == DoSerialize \/ DoDeserialize

SpecCodec == InitCodec /\ [][NextCodec]_vars

(* ============================== claims ================================ *)
RegionsOf(a) == {i \in 1..Len(bufs) : bufs[i].alloc = a}
Called(op) == last.op = op
Self == bufs[last.id]

\* the allocation bytes a region addresses: [ptr, ptr + cap)
Addresses(b, addr) == b.ptr <= addr /\ addr < b.ptr + b.cap

\* the bytes of the region the call started from, at positions [from, from + n)
RegionBytes(h, b, from, n) ==
    [j \in 1..n |-> h[b.alloc].data[b.ptr + from + j]]
InsideAlloc(h, b, from, n) ==
    n = 0 \/ (h[b.alloc].released = 0 /\ b.ptr + from + n <= h[b.alloc].size)

\* C1: in every state reached by new, zeroed, from, read, write, advance, get
\* and split_at calls that returned, every region (split-off ones included)
\* has 0 <= offset <= length <= capacity.
C1_OffsetLengthCapacity ==
    ~panicked =>
        \A i \in Live :
            0 <= bufs[i].offset /\ bufs[i].offset <= bufs[i].len
            /\ bufs[i].len <= bufs[i].cap

C3_NoLiveRegionOverFreedMemory ==
    /\ \A i \in Live :
          heap[bufs[i].alloc].size > 0 => heap[bufs[i].alloc].released = 0
    /\ (Called("read") \/ Called("write") \/ Called("get")) =>
           last.heap0[last.pre.alloc].released = 0

\* C4: after split_at(k) with 0 <= k < c the original addresses [0,k) and the
\* split-off region [k,c) of the bytes the original addressed, and a write to
\* one region changes no byte that another region of the allocation addresses.
C4_SplitPartitionsAndIsolates ==
    /\ (Called("split_at") /\ last.ok /\ last.n < last.pre.cap) =>
          /\ Self.ptr = last.pre.ptr /\ Self.cap = last.n
          /\ bufs[last.made].ptr = last.pre.ptr + last.n
          /\ bufs[last.made].cap = last.pre.cap - last.n
    /\ Called("write") =>
          \A j \in RegionsOf(last.pre.alloc) \ {last.id} :
              \A addr \in 0..(heap[last.pre.alloc].size - 1) :
                  Addresses(bufs[j], addr) =>
                      heap[last.pre.alloc].data[addr + 1]
                          = last.heap0[last.pre.alloc].data[addr + 1]

\* C5: split_at(index) with index >= capacity (capacity 0 included) fails and
\* leaves capacity, length and offset as they were (and makes no region).
C5_SplitOutOfBoundsFails ==
    (Called("split_at") /\ last.n >= last.pre.cap) =>
        /\ ~last.ok
        /\ Self = last.pre
        /\ last.made = 0

\* the call ran on a region over an allocation of at least one byte
OnBytes == heap[last.pre.alloc].size > 0

C7_WriteAppendsWithinCapacity ==
    (Called("write") /\ last.n > 0) =>
        /\ last.ok
        /\ last.ret = Min(last.n, last.pre.cap - last.pre.len)
        /\ last.ret >= 0
        /\ InsideAlloc(heap, last.pre, last.pre.len, last.ret)
        /\ RegionBytes(heap, last.pre, last.pre.len, last.ret) = SubSeq(last.src, 1, last.ret)
        /\ Self = [last.pre EXCEPT !.len = last.pre.len + last.ret]

\* C8: get(n, advance) fails exactly when n > length - offset, otherwise
\* returns the n bytes at [offset, offset + n); the offset moves, by n, only
\* when the call succeeds and advance is true (stated for allocations of at
\* least one byte).
C8_PeekMovesCursorOnlyOnSuccess ==
    (Called("get") /\ OnBytes) =>
        /\ last.ok <=> last.n <= last.pre.len - last.pre.offset
        /\ last.ok => last.out = RegionBytes(last.heap0, last.pre, last.pre.offset, last.n)
        /\ Self.offset = IF last.ok /\ last.adv
                         THEN last.pre.offset + last.n ELSE last.pre.offset

\* C9: for every fixed-width wrapper and both byte orders, a value written
\* and read back with the same byte order comes back unchanged.
C9_FixedWidthRoundTrip ==
    (codec.phase = "read" /\ codec.ty \in FixedTypes) =>
        codec.out.kind = "some" /\ codec.out.val = codec.val

\* the boundary values of a VarInt wrapper: 0, 0x7F, 0x80, and the extremes
\* of its type
BoundaryValues(ty) ==
    LET w == Width(ty) IN
    {Bits(0, w), Bits(127, w), Bits(128, w)}
    \cup (IF ty \in {"VarU32", "VarU64"} THEN {AllOnes(w)} ELSE {TopBit(w), AllButTop(w)})

\* C10: every boundary value encoded with the VarInt wrapper of its type
\* decodes to the same value (the signed decode being (value >> 1),
\* complemented when the low bit was set).
C10_VarIntBoundaryRoundTrip ==
    (codec.phase = "read" /\ codec.ty \in VarTypes
        /\ codec.val \in BoundaryValues(codec.ty)) =>
        codec.out.kind = "some" /\ codec.out.val = codec.val

\* a ^ b, and x >> k on a signed value (the sign bit is copied in)
Xor(a, b) == [i \in 1..Len(a) |-> (a[i] + b[i]) % 2]
Sar(x, k) == [i \in 1..Len(x) |-> IF i + k <= Len(x) THEN x[i + k] ELSE x[Len(x)]]

\* the zigzag value of x at the full width of x: (x << 1) ^ (x >> (w - 1))
ZigZag(x) == Xor(Shl(x, 1), Sar(x, Len(x) - 1))

\* C11: the signed VarInt wrappers emit the unsigned VarInt encoding of the
\* zigzag value of x computed at the full width of x (32 or 64 bits); -1
\* goes to 1, 0 to 0 and 1 to 2.
C11_SignedEncodeIsZigZag ==
    /\ ZigZag(AllOnes(32)) = Bits(1, 32) /\ ZigZag(Bits(1, 64)) = Bits(2, 64)
    /\ (codec.phase \in {"written", "read"} /\ codec.ty \in {"VarI32", "VarI64"}) =>
          codec.buf.data = VarEmit(ZigZag(codec.val), EmptyWire(WireCap)).data

(* ------------------ Bool, and decoding bytes from outside ------------- *)
\* impl_unordered!(I8, i8, 1): deserialize
I8Deserialize(buf) ==
    LET r == WireRead(buf, 1) IN
    IF r.size = 1 THEN Some(FromLeBytes(r.bytes), r.buf) ELSE None(r.buf)

\* impl Binary for Bool
BoolSerialize(b, buf) == U8Serialize(IF b THEN 1 ELSE 0, buf)
BoolDeserialize(buf) ==
    LET val == U8Deserialize(buf) IN
    IF val.kind = "none" THEN None(val.buf)
    ELSE CASE val.val = 1 -> Some(TRUE, val.buf)
           [] val.val = 0 -> Some(FALSE, val.buf)
           [] OTHER -> Panic(val.buf)

\* Buffer::from(vec): capacity = length = vec.len(), offset 0
WireFrom(bytes) == [cap |-> Len(bytes), data |-> bytes, offset |-> 0]

UnorderedTypes == {"U8", "I8"}

\* bytes a fixed-width read asks for
ReadWidth(ty) == IF ty \in UnorderedTypes THEN 1 ELSE WireBytes(ty)

(* ------------------------------- strings ------------------------------ *)
\* a continuation byte 0x80..0xBF
Cont(b) == 128 <= b /\ b <= 191

\* String::from_utf8: the number of bytes the sequence led by b takes (0 when
\* b cannot lead one), and the range its second byte must lie in
LeadLen(b) ==
    CASE b <= 127 -> 1
      [] 194 <= b /\ b <= 223 -> 2
      [] 224 <= b /\ b <= 239 -> 3
      [] 240 <= b /\ b <= 244 -> 4
      [] OTHER -> 0
SecondOk(b, c) ==
    CASE b = 224 -> 160 <= c /\ c <= 191
      [] b = 237 -> 128 <= c /\ c <= 159
      [] b = 240 -> 144 <= c /\ c <= 191
      [] b = 244 -> 128 <= c /\ c <= 143
      [] OTHER -> Cont(c)

\* String::from_utf8(bs).is_ok(): every byte that is not a continuation byte
\* leads a complete well-formed sequence, and every continuation byte
\* belongs to the sequence of a lead byte at most three places before it
Utf8Valid(bs) ==
    \A i \in 1..Len(bs) :
        IF Cont(bs[i])
        THEN \E k \in 1..3 : i - k >= 1 /\ ~Cont(bs[i - k]) /\ LeadLen(bs[i - k]) > k
                             /\ \A m \in 1..(k - 1) : Cont(bs[i - m])
        ELSE /\ LeadLen(bs[i]) >= 1
             /\ i + LeadLen(bs[i]) - 1 <= Len(bs)
             /\ \A k \in 1..(LeadLen(bs[i]) - 1) :
                    IF k = 1 THEN SecondOk(bs[i], bs[i + 1]) ELSE Cont(bs[i + k])

\* val as usize, for a prefix read off the wire
RECURSIVE AsUsizeFrom(_, _, _)
AsUsizeFrom(v, lo, hi) ==
    IF lo = hi THEN (IF v[lo] = 1 THEN 2 ^ (lo - 1) ELSE 0)
    ELSE LET mid == (lo + hi) \div 2 IN
         AsUsizeFrom(v, lo, mid) + AsUsizeFrom(v, mid + 1, hi)
AsUsize(v) == AsUsizeFrom(v, 1, Len(v))

\* impl_prefix_for!(VarU32, <>, u32): encode / decode
PrefixEncode(len, buf) == VarU32Serialize(Bits(len, 32), buf)
PrefixDecode(buf) ==
    LET r == VarU32Deserialize(buf) IN
    IF r.kind = "some" THEN Some(AsUsize(r.val), r.buf) ELSE r

\* a string written without its length prefix
CStringSerializeBare(s, buf) == WireWrite(buf, s)

\* impl Binary for CString<VarU32>; a string is the sequence of its bytes
CStringSerialize(s, buf) == WireWrite(PrefixEncode(Len(s), buf), s)
CStringDeserialize(buf) ==
    LET len == PrefixDecode(buf) IN
    IF len.kind # "some" THEN len
    ELSE LET r == WireRead(len.buf, len.val) IN
         IF Utf8Valid(r.bytes) THEN Some(r.bytes, r.buf) ELSE Panic(r.buf)

(* --------------------- decoding what is on the wire -------------------- *)
MaxGroups == 11

\* T::deserialize(buf) for the wrappers that are decoded from outside bytes
DecodeAs(ty, order, buf) ==
    CASE ty = "U8" -> U8Deserialize(buf)
      [] ty = "I8" -> I8Deserialize(buf)
      [] ty = "Bool" -> BoolDeserialize(buf)
      [] ty = "CString" -> CStringDeserialize(buf)
      [] OTHER -> Deserialize(ty, order, buf)

\* the byte whose value is its position, and 0xFF, repeated
Patterns(n) == {[k \in 1..n |-> k], [k \in 1..n |-> 255]}
Prefixes(S) == UNION {{SubSeq(s, 1, n) : n \in 0..Len(s)} : s \in S}

\* groups that all carry the continuation bit, alone or closed by a last group
ContinuationRuns ==
    LET runs == {[k \in 1..n |-> b] : n \in 0..MaxGroups, b \in {128, 255}} IN
    runs \cup {Append(r, t) : r \in runs, t \in {0, 1, 127}}

BoolInputs == {<<>>, <<0>>, <<1>>, <<2>>, <<128>>, <<255>>, <<1, 0>>}

\* length prefix and payload: complete, cut short, not UTF-8, and a prefix
\* that is itself too long
StringInputs ==
    Prefixes({<<0>>, <<1, 65>>, <<2, 195, 169>>, <<3, 72, 105, 33, 7>>,
              <<130, 1>> \o [k \in 1..130 |-> 97]})
    \cup {<<1, 128>>, <<1, 255>>, <<2, 195, 40>>, <<2, 65, 195>>, <<3, 237, 160, 128>>,
          <<4, 240, 159, 146, 150>>, <<5, 65>>, <<127>>, <<128, 128, 128, 128, 128, 1>>}

DecodeCases ==
    UNION {{[ty |-> ty, order |-> o, bytes |-> bs] :
                o \in Orders, bs \in Prefixes(Patterns(WireBytes(ty) + 1))} :
           ty \in FixedTypes}
    \cup {[ty |-> ty, order |-> "LE", bytes |-> bs] :
            ty \in UnorderedTypes, bs \in Prefixes(Patterns(2))}
    \cup {[ty |-> ty, order |-> "LE", bytes |-> bs] : ty \in VarTypes, bs \in ContinuationRuns}
    \cup {[ty |-> "Bool", order |-> "LE", bytes |-> bs] : bs \in BoolInputs}
    \cup {[ty |-> "CString", order |-> "LE", bytes |-> bs] : bs \in StringInputs}

InitDecode ==
    /\ overflow_checks = FALSE
    /\ heap = <<>>
    /\ bufs = <<>>
    /\ panicked = FALSE
    /\ last = NoCall
    /\ steps = 0
    /\ \E c \in DecodeCases :
          codec = [phase |-> "wire", ty |-> c.ty, order |-> c.order, val |-> <<>>,
                   buf |-> WireFrom(c.bytes), out |-> None(WireFrom(c.bytes))]

\* T::deserialize(&mut buffer) on a region built from received bytes
DoDecode ==
    /\ codec.phase = "wire"
    /\ LET r == DecodeAs(codec.ty, codec.order, codec.buf) IN
       codec' = [codec EXCEPT !.phase = "decoded", !.buf = r.buf, !.out = r]
    /\ panicked' = (DecodeAs(codec.ty, codec.order, codec.buf).kind = "panic")
    /\ UNCHANGED <<overflow_checks, heap, bufs, last, steps>>

NextDecode == DoDecode

SpecDecode == InitDecode /\ [][NextDecode]_vars

\* ---- claims about decoding
Decoded(ty) == codec.phase = "decoded" /\ codec.ty = ty
Input == codec.buf.data
Consumed == codec.buf.offset

\* the largest number of groups a VarInt of the type's width may have
GroupBound(ty) == IF Width(ty) = 32 THEN 5 ELSE 10

\* C12: VarInt decode reads at most 5 groups (32-bit types) or 10 groups
\* (64-bit types), and an input whose groups up to that bound all carry the
\* continuation bit is answered with a failure the caller receives, not with
\* a panic.
C12_VarIntOverflowIsAnError ==
    (codec.phase = "decoded" /\ codec.ty \in VarTypes) =>
        /\ Consumed <= GroupBound(codec.ty)
        /\ (Len(Input) >= GroupBound(codec.ty)
            /\ \A k \in 1..GroupBound(codec.ty) : Input[k] >= 128)
           => codec.out.kind = "none"

\* C13: Bool serialize writes exactly one byte, 0x01 for true and 0x00 for
\* false; Bool deserialize gives true for 0x01, false for 0x00, and answers
\* any other byte with a failure the caller receives, never a value or a
\* panic.
C13_BoolByteAndInvalidInput ==
    /\ \A b \in BOOLEAN :
          BoolSerialize(b, EmptyWire(WireCap)).data = <<IF b THEN 1 ELSE 0>>
    /\ (Decoded("Bool") /\ Len(Input) >= 1) =>
          CASE Input[1] = 1 -> codec.out.kind = "some" /\ codec.out.val = TRUE
            [] Input[1] = 0 -> codec.out.kind = "some" /\ codec.out.val = FALSE
            [] OTHER -> codec.out.kind = "none"

\* C14: a fixed-width read (u8, i8, and u16 .. i64 in either byte order)
\* that finds fewer bytes in the region than its width returns an absent
\* value and does not panic.
C14_ShortFixedReadIsAbsent ==
    (codec.phase = "decoded" /\ codec.ty \in FixedTypes \cup UnorderedTypes
        /\ Len(Input) < ReadWidth(codec.ty)) =>
        codec.out.kind = "none" /\ ~panicked

\* an i64 read in little-endian order found 7 of its 8 bytes
C14_Witness ==
    /\ Decoded("I64") /\ codec.order = "LE"
    /\ Len(Input) = 7 /\ Consumed = 7
    /\ codec.out.kind = "none"

\* the payload the length prefix of the input declares, when the prefix is
\* one group and that many bytes follow it
DeclaredPayload == SubSeq(Input, 2, 1 + Input[1])
PayloadComplete == Len(Input) >= 1 /\ Input[1] < 128 /\ Len(Input) >= 1 + Input[1]

\* C15: string deserialize returns a string only when all the declared
\* payload bytes were read from the region and are valid UTF-8, and then
\* returns exactly those bytes; with fewer bytes than declared, or bytes that
\* are not UTF-8, it returns a failure (no padded string, no panic).
C15_StringNeedsAllBytesAndUtf8 ==
    (Decoded("CString") /\ Len(Input) >= 1 /\ Input[1] < 128) =>
        IF PayloadComplete /\ Utf8Valid(DeclaredPayload)
        THEN codec.out.kind = "some" /\ codec.out.val = DeclaredPayload
        ELSE codec.out.kind = "none"

(* ------------------------------ Optional ------------------------------ *)
Present(v) == [present |-> TRUE, v |-> v]
Absent == [present |-> FALSE, v |-> <<>>]

\* impl Binary for Optional<S, T>, T being the wrapper ty in byte order order
OptionalSerialize(S, ty, order, o, buf) ==
    IF o.present
    THEN Serialize(ty, order, o.v, BoolSerialize(S, buf))
    ELSE BoolSerialize(~S, buf)
OptionalDeserialize(S, ty, order, buf) ==
    LET s == BoolDeserialize(buf) IN
    IF s.kind # "some" THEN s
    ELSE IF s.val = S
         THEN LET value == Deserialize(ty, order, s.buf) IN
              IF value.kind # "some" THEN value
              ELSE Some(Present(value.val), value.buf)
         ELSE Some(Absent, s.buf)

(* ----------------- strings and optionals, there and back -------------- *)
MaxText == 2

\* "Hello World!"
HelloWorld == <<72, 101, 108, 108, 111, 32, 87, 111, 114, 108, 100, 33>>

\* texts of up to MaxText bytes over 'A', 0xC3, 0xA9 that are UTF-8, the
\* test's text, a three-byte and a four-byte character, and texts of 127 and
\* 128 bytes
StringSamples ==
    {s \in UNION {[1..n -> {65, 195, 169}] : n \in 0..MaxText} : Utf8Valid(s)}
    \cup {HelloWorld, <<226, 130, 172>>, <<240, 159, 146, 150>>,
          [k \in 1..127 |-> 97], [k \in 1..128 |-> 97]}

\* the payload values of an Optional: those of the wrapper, and 100
OptionalValues(ty) == SampleValues(ty) \cup {Bits(100, Width(ty))}

ValueCases ==
    {[ty |-> "CString", order |-> "LE", sentinel |-> FALSE, inner |-> "none",
      val |-> Present(s), cap |-> Len(s) + d] : s \in StringSamples, d \in 0..2}
    \cup UNION {{[ty |-> "Optional", order |-> c.order, sentinel |-> S, inner |-> c.ty,
                  val |-> o, cap |-> WireCap] :
                    S \in BOOLEAN,
                    o \in {Absent} \cup {Present(v) : v \in OptionalValues(c.ty)}} :
                c \in CodecCases}

InitValues ==
    /\ overflow_checks = FALSE
    /\ heap = <<>>
    /\ bufs = <<>>
    /\ panicked = FALSE
    /\ last = NoCall
    /\ steps = 0
    /\ \E c \in ValueCases :
          codec = [phase |-> "value", ty |-> c.ty, order |-> c.order,
                   sentinel |-> c.sentinel, inner |-> c.inner, val |-> c.val,
                   buf |-> EmptyWire(c.cap), out |-> None(EmptyWire(c.cap))]

\* value.serialize(&mut buffer)
DoEncode ==
    /\ codec.phase = "value"
    /\ codec' = [codec EXCEPT !.phase = "written",
                   !.buf = IF codec.ty = "CString"
                           THEN CStringSerialize(codec.val.v, codec.buf)
                           ELSE OptionalSerialize(codec.sentinel, codec.inner,
                                                  codec.order, codec.val, codec.buf)]
    /\ UNCHANGED <<overflow_checks, heap, bufs, panicked, last, steps>>

\* T::deserialize(&mut buffer) on the region just written
DoDecodeBack ==
    /\ codec.phase = "written"
    /\ LET r == IF codec.ty = "CString"
                THEN CStringDeserialize(codec.buf)
                ELSE OptionalDeserialize(codec.sentinel, codec.inner, codec.order,
                                         codec.buf)
       IN  /\ codec' = [codec EXCEPT !.phase = "read", !.buf = r.buf, !.out = r]
           /\ panicked' = (r.kind = "panic")
    /\ UNCHANGED <<overflow_checks, heap, bufs, last, steps>>

NextValues == DoEncode \/ DoDecodeBack

SpecValues == InitValues /\ [][NextValues]_vars

\* ---- claims about strings and optionals
\* the string a CString case started from
Text == codec.val.v

\* C16: a string of L < 128 bytes serialized with a VarInt length prefix into
\* an empty region of capacity >= L + 1 leaves length L + 1 and offset 0, the
\* prefix byte being L; deserialize then returns exactly the string and
\* leaves length L + 1 and offset L + 1.
C16_StringRoundTrip ==
    (codec.ty = "CString" /\ Len(Text) < 128 /\ codec.buf.cap >= Len(Text) + 1) =>
        /\ codec.phase = "written" =>
              /\ Len(codec.buf.data) = Len(Text) + 1
              /\ codec.buf.data = <<Len(Text)>> \o Text
              /\ codec.buf.offset = 0
        /\ codec.phase = "read" =>
              /\ codec.out.kind = "some" /\ codec.out.val = Text
              /\ Len(codec.buf.data) = Len(Text) + 1
              /\ codec.buf.offset = Len(Text) + 1

\* "Hello World!" went into a region of capacity 13 and came back, with
\* length 13 and offset 13
C16_Witness ==
    /\ codec.ty = "CString" /\ codec.phase = "read"
    /\ Text = HelloWorld /\ codec.buf.cap = 13
    /\ codec.out.val = HelloWorld
    /\ Len(codec.buf.data) = 13 /\ codec.buf.offset = 13

\* the byte Bool::serialize writes
BoolByte(b) == IF b THEN 1 ELSE 0

\* the bytes the payload wrapper alone writes for v
PayloadBytes(ty, order, v) == Serialize(ty, order, v, EmptyWire(WireCap)).data

\* C17: for both sentinels S and every payload value v, Optional<S, T>
\* holding v serializes to the boolean byte of S followed by the encoding of
\* v, an absent one to the single boolean byte of !S; deserialize returns a
\* present value exactly when the flag byte equals S and consumes only the
\* flag byte otherwise, so that decode(encode(o)) = o (Some(100) as VarU32
\* with S = false is 2 bytes and leaves offset 2).
C17_OptionalRoundTrip ==
    (codec.ty = "Optional" /\ codec.phase \in {"written", "read"}) =>
        /\ codec.buf.data =
              IF codec.val.present
              THEN <<BoolByte(codec.sentinel)>>
                   \o PayloadBytes(codec.inner, codec.order, codec.val.v)
              ELSE <<BoolByte(~codec.sentinel)>>
        /\ codec.phase = "read" =>
              /\ codec.out.kind = "some"
              /\ codec.out.val.present <=> codec.buf.data[1] = BoolByte(codec.sentinel)
              /\ ~codec.out.val.present => codec.buf.offset = 1
              /\ codec.out.val = codec.val
              /\ (codec.inner = "VarU32" /\ ~codec.sentinel
                  /\ codec.val = Present(Bits(100, 32)))
                 => Len(codec.buf.data) = 2 /\ codec.buf.offset = 2

(* ================================ NBT ================================= *)
\* A node is a record with its tag and a payload field named after its
\* kind: bits (Byte 8, Short 16, Int 32, Long 64, Float 32, Double 64 bits),
\* bytes (ByteArray), text (String), elem and items (List), entries
\* (Compound: a sequence of [name, node]), ints (IntArray), longs (LongArray).
Tags == <<"End", "Byte", "Short", "Int", "Long", "Float", "Double", "ByteArray",
          "String", "List", "Compound", "IntArray", "LongArray">>

\* tag as u8, and Tag::from_byte
TagByte(tag) == (CHOOSE k \in 1..Len(Tags) : Tags[k] = tag) - 1
TagFromByte(byte) == IF byte < Len(Tags) THEN Tags[byte + 1] ELSE "invalid"

\* serialize_tag / deserialize_tag
SerializeTag(tag, buf) == U8Serialize(TagByte(tag), buf)
DeserializeTag(buf) ==
    LET byte == U8Deserialize(buf) IN
    IF byte.kind # "some" THEN byte
    ELSE IF TagFromByte(byte.val) = "invalid" THEN None(byte.buf)
         ELSE Some(TagFromByte(byte.val), byte.buf)

\* impl Encoding for NetworkLittleEndian
WriteInt(val, buf) == VarI32Serialize(val, buf)
ReadInt(buf) == VarI32Deserialize(buf)
WriteLong(val, buf) == VarI64Serialize(val, buf)
ReadLong(buf) == VarI64Deserialize(buf)
WriteString(val, buf) == WireWrite(VarU32Serialize(Bits(Len(val), 32), buf), val)
ReadString(buf) == CStringDeserialize(buf)

\* one pass of a loop after another on the same region: the region the
\* earlier pass left, its length within its capacity as Buffer keeps it, is
\* what the later pass starts from
AndThen(buf, Then(_)) == CASE Len(buf.data) <= buf.cap -> Then(buf)

\* the loops of encode over the items of a List, IntArray or LongArray,
\* from item i on
RECURSIVE EncodeInts(_, _, _)
EncodeInts(v, i, buf) ==
    IF i > Len(v) THEN buf
    ELSE AndThen(WriteInt(v[i], buf), LAMBDA next : EncodeInts(v, i + 1, next))
RECURSIVE EncodeLongs(_, _, _)
EncodeLongs(v, i, buf) ==
    IF i > Len(v) THEN buf
    ELSE AndThen(WriteLong(v[i], buf), LAMBDA next : EncodeLongs(v, i + 1, next))

\* encode::<NetworkLittleEndian>(nbt, buf)
RECURSIVE Encode(_, _)
RECURSIVE EncodeItems(_, _, _)
RECURSIVE EncodeEntries(_, _, _)
Encode(nbt, buf) ==
    CASE nbt.tag \in {"Byte", "Short", "Float", "Double"} ->
            WireWrite(buf, ToLeBytes(nbt.bits))
      [] nbt.tag = "Int" -> WriteInt(nbt.bits, buf)
      [] nbt.tag = "Long" -> WriteLong(nbt.bits, buf)
      [] nbt.tag = "ByteArray" ->
            WireWrite(WriteInt(Bits(Len(nbt.bytes), 32), buf), nbt.bytes)
      [] nbt.tag = "String" -> WriteString(nbt.text, buf)
      [] nbt.tag = "List" ->
            EncodeItems(nbt.items, 1,
                WriteInt(Bits(Len(nbt.items), 32), SerializeTag(nbt.elem, buf)))
      [] nbt.tag = "Compound" ->
            SerializeTag("End", EncodeEntries(nbt.entries, 1, buf))
      [] nbt.tag = "IntArray" ->
            EncodeInts(nbt.ints, 1, WriteInt(Bits(Len(nbt.ints), 32), buf))
      [] nbt.tag = "LongArray" ->
            EncodeLongs(nbt.longs, 1, WriteInt(Bits(Len(nbt.longs), 32), buf))
EncodeItems(v, i, buf) ==
    IF i > Len(v) THEN buf
    ELSE AndThen(Encode(v[i], buf), LAMBDA next : EncodeItems(v, i + 1, next))
EncodeEntries(v, i, buf) ==
    IF i > Len(v) THEN buf
    ELSE AndThen(Encode(v[i].node,
                        WriteString(v[i].name, SerializeTag(v[i].node.tag, buf))),
                 LAMBDA next : EncodeEntries(v, i + 1, next))

\* RootNBT::serialize
RootSerialize(val, buf) == Encode(val, WriteString(<<>>, SerializeTag(val.tag, buf)))

\* a length read off the wire is negative (an i32 with its sign bit set)
Negative(len) == len[Len(len)] = 1

\* Compound::put: a name already present keeps its place and takes the new
\* value, a new name goes to the end
CompoundPut(entries, name, value) ==
    IF \E k \in 1..Len(entries) : entries[k].name = name
    THEN [k \in 1..Len(entries) |->
            IF entries[k].name = name THEN [name |-> name, node |-> value] ELSE entries[k]]
    ELSE Append(entries, [name |-> name, node |-> value])

\* the ? of Rust: a result that is not a value is handed on as it is (an
\* absent result, or a panic on its way up), a value goes on into Then
Try(r, Then(_)) == IF r.kind # "some" THEN r ELSE Then(r)

\* the Byte, Short, Float and Double arms of decode: n bytes are asked for
\* and the count that came is not looked at
DecodeRaw(tag, n, buf) ==
    LET r == WireRead(buf, n) IN
    Some([tag |-> tag, bits |-> FromLeBytes(r.bytes)], r.buf)

\* the ByteArray arm of decode once the length is known
DecodeBytes(len, buf) ==
    LET r == WireRead(buf, len) IN
    Some([tag |-> "ByteArray", bytes |-> r.bytes], r.buf)

\* the loops of the IntArray and LongArray arms, todo items still to read
RECURSIVE DecodeInts(_, _, _)
DecodeInts(todo, buf, array) ==
    IF todo = 0 THEN Some([tag |-> "IntArray", ints |-> array], buf)
    ELSE Try(ReadInt(buf),
             LAMBDA data : DecodeInts(todo - 1, data.buf, Append(array, data.val)))
RECURSIVE DecodeLongs(_, _, _)
DecodeLongs(todo, buf, array) ==
    IF todo = 0 THEN Some([tag |-> "LongArray", longs |-> array], buf)
    ELSE Try(ReadLong(buf),
             LAMBDA data : DecodeLongs(todo - 1, data.buf, Append(array, data.val)))

\* decode::<NetworkLittleEndian>(id, buf)
RECURSIVE Decode(_, _)
RECURSIVE DecodeItems(_, _, _, _)
RECURSIVE DecodeEntries(_, _)
RECURSIVE DecodeEntry(_)
Decode(id, buf) ==
    CASE id = "End" -> None(buf)
      [] id = "Byte" -> DecodeRaw(id, 1, buf)
      [] id = "Short" -> DecodeRaw(id, 2, buf)
      [] id = "Int" ->
            Try(ReadInt(buf), LAMBDA val : Some([tag |-> id, bits |-> val.val], val.buf))
      [] id = "Long" ->
            Try(ReadLong(buf), LAMBDA val : Some([tag |-> id, bits |-> val.val], val.buf))
      [] id = "Float" -> DecodeRaw(id, 4, buf)
      [] id = "Double" -> DecodeRaw(id, 8, buf)
      [] id = "ByteArray" ->
            Try(ReadInt(buf),
                LAMBDA len : IF Negative(len.val) THEN Panic(len.buf)
                             ELSE DecodeBytes(AsUsize(len.val), len.buf))
      [] id = "String" ->
            Try(ReadString(buf),
                LAMBDA string : Some([tag |-> id, text |-> string.val], string.buf))
      [] id = "List" ->
            Try(DeserializeTag(buf),
                LAMBDA list_type :
                  Try(ReadInt(list_type.buf),
                      LAMBDA len :
                        IF list_type.val = "End"
                        THEN Some([tag |-> id, elem |-> "End", items |-> <<>>], len.buf)
                        ELSE IF Negative(len.val) THEN Panic(len.buf)
                        ELSE DecodeItems(list_type.val, AsUsize(len.val), len.buf, <<>>)))
      [] id = "Compound" -> DecodeEntries(buf, <<>>)
      [] id = "IntArray" ->
            Try(ReadInt(buf),
                LAMBDA len : IF Negative(len.val) THEN Panic(len.buf)
                             ELSE DecodeInts(AsUsize(len.val), len.buf, <<>>))
      [] id = "LongArray" ->
            Try(ReadInt(buf),
                LAMBDA len : IF Negative(len.val) THEN Panic(len.buf)
                             ELSE DecodeLongs(AsUsize(len.val), len.buf, <<>>))
DecodeItems(list_type, todo, buf, list) ==
    IF todo = 0 THEN Some([tag |-> "List", elem |-> list_type, items |-> list], buf)
    ELSE Try(Decode(list_type, buf),
             LAMBDA element :
               DecodeItems(list_type, todo - 1, element.buf, Append(list, element.val)))
\* one pass of the loop of the Compound arm: the tag, and unless it is End
\* the name and the value of the entry
DecodeEntry(buf) ==
    Try(DeserializeTag(buf),
        LAMBDA tag :
          IF tag.val = "End" THEN Some([tag |-> "End"], tag.buf)
          ELSE Try(ReadString(tag.buf),
                   LAMBDA name :
                     Try(Decode(tag.val, name.buf),
                         LAMBDA value :
                           Some([tag |-> tag.val, name |-> name.val, node |-> value.val],
                                value.buf))))
\* the loop of the Compound arm: entries are put until the End tag
DecodeEntries(buf, compound) ==
    Try(DecodeEntry(buf),
        LAMBDA entry :
          IF entry.val.tag = "End"
          THEN Some([tag |-> "Compound", entries |-> compound], entry.buf)
          ELSE DecodeEntries(entry.buf,
                             CompoundPut(compound, entry.val.name, entry.val.node)))

\* RootNBT::deserialize
RootDeserialize(buf) ==
    Try(DeserializeTag(buf),
        LAMBDA tag : Try(ReadString(tag.buf), LAMBDA name : Decode(tag.val, name.buf)))

(* ------------------------ trees, there and back ----------------------- *)
MaxDepth == 2
MaxRoots == 2
NbtCap == 160

Node(tag, bits) == [tag |-> tag, bits |-> bits]
Compound(entries) == [tag |-> "Compound", entries |-> entries]
List(elem, items) == [tag |-> "List", elem |-> elem, items |-> items]
Entry(name, node) == [name |-> name, node |-> node]

\* 1.0 as f32 and as f64, by their bits
FloatOne == Shl(Bits(127, 32), 23)
DoubleOne == Shl(Bits(1023, 64), 52)

\* nodes without children: the numbers at the ends of their ranges, empty
\* and non-empty arrays and strings, and the empty lists
Leaves ==
    {Node("Byte", Bits(n, 8)) : n \in {1, 128}}
    \cup {Node("Short", Bits(n, 16)) : n \in {258, 32768}}
    \cup {Node("Int", v) : v \in {Bits(0, 32), Bits(1, 32), AllOnes(32), TopBit(32),
                                   AllButTop(32)}}
    \cup {Node("Long", v) : v \in {Bits(0, 64), Bits(1, 64), AllOnes(64), TopBit(64),
                                    AllButTop(64), Shl(Bits(1, 64), 31)}}
    \cup {Node("Float", FloatOne), Node("Double", DoubleOne), Node("Double", TopBit(64))}
    \cup {[tag |-> "ByteArray", bytes |-> b] : b \in {<<>>, <<1, 255>>}}
    \cup {[tag |-> "String", text |-> s] : s \in {<<>>, <<65>>, <<195, 169>>}}
    \cup {[tag |-> "IntArray", ints |-> a] : a \in {<<>>, <<Bits(1, 32), TopBit(32)>>}}
    \cup {[tag |-> "LongArray", longs |-> a] : a \in {<<>>, <<Bits(1, 64), AllOnes(64)>>}}
    \cup {List("End", <<>>), List("Int", <<>>)}

\* trees of depth at most d: a leaf, or a Compound or a List around a tree
RECURSIVE Trees(_)
Trees(d) ==
    IF d = 0 THEN Leaves
    ELSE Leaves
         \cup {Compound(<<Entry(<<97>>, t)>>) : t \in Trees(d - 1)}
         \cup {List(t.tag, <<t, t>>) : t \in Trees(d - 1)}

\* a Compound holding one node of each of the 12 kinds
AllKinds ==
    Compound(<<Entry(<<98>>, Node("Byte", Bits(128, 8))),
               Entry(<<115>>, Node("Short", Bits(258, 16))),
               Entry(<<105>>, Node("Int", TopBit(32))),
               Entry(<<108>>, Node("Long", Bits(1, 64))),
               Entry(<<102>>, Node("Float", FloatOne)),
               Entry(<<100>>, Node("Double", DoubleOne)),
               Entry(<<98, 97>>, [tag |-> "ByteArray", bytes |-> <<1, 255>>]),
               Entry(<<>>, [tag |-> "String", text |-> <<195, 169>>]),
               Entry(<<108, 105>>, List("Short", <<Node("Short", Bits(1, 16))>>)),
               Entry(<<99>>, Compound(<<Entry(<<120>>, Node("Int", Bits(1, 32)))>>)),
               Entry(<<105, 97>>, [tag |-> "IntArray", ints |-> <<AllOnes(32)>>]),
               Entry(<<108, 97>>, [tag |-> "LongArray", longs |-> <<Bits(1, 64)>>])>>)

\* root values: a Compound around every tree, the empty Compound, AllKinds,
\* and every node without children as a root of its own
Roots ==
    {Compound(<<Entry(<<107>>, t)>>) : t \in Trees(MaxDepth)}
    \cup {Compound(<<>>), AllKinds}
    \cup Leaves

\* the roots written back to back
StreamRoots ==
    {Compound(<<>>),
     Compound(<<Entry(<<97>>, Node("Byte", Bits(1, 8)))>>),
     Compound(<<Entry(<<97>>, Node("Long", AllButTop(64)))>>),
     Compound(<<Entry(<<115>>, [tag |-> "String", text |-> <<65>>]),
                Entry(<<105>>, Node("Int", AllOnes(32)))>>)}

InitNbt ==
    /\ overflow_checks = FALSE
    /\ heap = <<>>
    /\ bufs = <<>>
    /\ panicked = FALSE
    /\ last = NoCall
    /\ steps = 0
    /\ \E trees \in {<<r>> : r \in Roots}
                    \cup UNION {[1..k -> StreamRoots] : k \in 2..MaxRoots} :
          codec = [phase |-> "value", trees |-> trees, wrote |-> 0,
                   buf |-> EmptyWire(NbtCap), outs |-> <<>>]

\* RootNBT::new(tree).serialize(&mut buffer), one root after the other
NbtSerialize ==
    /\ codec.phase = "value"
    /\ codec.wrote < Len(codec.trees)
    /\ codec' = [codec EXCEPT
                    !.wrote = @ + 1,
                    !.buf = RootSerialize(codec.trees[codec.wrote + 1], codec.buf),
                    !.phase = IF codec.wrote + 1 = Len(codec.trees)
                              THEN "written" ELSE "value"]
    /\ UNCHANGED <<overflow_checks, heap, bufs, panicked, last, steps>>

\* only the first n bytes of one serialized root arrive
NbtTruncate ==
    /\ codec.phase = "written"
    /\ Len(codec.trees) = 1
    /\ \E n \in 0..(Len(codec.buf.data) - 1) :
          codec' = [codec EXCEPT !.phase = "cut",
                                 !.buf = WireFrom(SubSeq(codec.buf.data, 1, n))]
    /\ UNCHANGED <<overflow_checks, heap, bufs, panicked, last, steps>>

\* the caller after a deserialize call: the region as the call left it, and
\* the result r kept after the earlier ones
Returned(c, phase, r) == [c EXCEPT !.phase = phase, !.buf = r.buf, !.outs = Append(@, r)]

\* RootNBT::deserialize(&mut buffer) on the bytes that arrived
NbtDeserializeCut ==
    /\ codec.phase = "cut"
    /\ codec' = Returned(codec, "cut read", RootDeserialize(codec.buf))
    /\ panicked' = (codec'.outs[Len(codec'.outs)].kind = "panic")
    /\ UNCHANGED <<overflow_checks, heap, bufs, last, steps>>

\* while buffer.remaining() != 0 { RootNBT::deserialize(&mut buffer).unwrap() }
NbtDeserialize ==
    /\ codec.phase \in {"written", "reading"}
    /\ ~panicked
    /\ Len(codec.buf.data) - codec.buf.offset # 0
    /\ codec' = Returned(codec, "reading", RootDeserialize(codec.buf))
    /\ panicked' = (codec'.outs[Len(codec'.outs)].kind # "some")
    /\ UNCHANGED <<overflow_checks, heap, bufs, last, steps>>

NextNbt == NbtSerialize \/ NbtTruncate \/ NbtDeserializeCut \/ NbtDeserialize

SpecNbt == InitNbt /\ [][NextNbt]_vars

\* ---- claims about trees
\* C18: a tree of bounded depth (a Compound root over nodes of all 12 kinds,
\* Int and Long values over their full range) serialized as a RootNBT under
\* the network profile into a region with room for it and deserialized again
\* comes back identical: the same keys in the same order, the same values.
C18_TreeRoundTrip ==
    (Len(codec.trees) = 1 /\ codec.phase = "reading") =>
        /\ codec.outs[1].kind = "some"
        /\ codec.outs[1].val = codec.trees[1]

\* C19: RootNBT deserialize of a proper prefix of a serialized tree returns
\* an absent result, wherever the cut falls; it never returns a tree and
\* never panics.
C19_TruncatedTreeIsAbsent ==
    codec.phase = "cut read" => codec.outs[1].kind = "none"

\* the number of bytes of one serialized root
RootSize(t) == Len(RootSerialize(t, EmptyWire(NbtCap)).data)
RECURSIVE SizeOfFirst(_, _)
SizeOfFirst(trees, j) == IF j = 0 THEN 0 ELSE SizeOfFirst(trees, j - 1) + RootSize(trees[j])

\* C20: k roots serialized back to back are returned in order by k
\* successive RootNBT deserialize calls, the j-th call leaves the offset at
\* the end of the j-th serialized root, and remaining() is 0 exactly after
\* the k-th call, so the loop "while remaining() != 0" makes k calls, none
\* of which fails.
C20_StreamOfRoots ==
    codec.phase \in {"written", "reading"} =>
        /\ Len(codec.outs) <= Len(codec.trees)
        /\ \A j \in 1..Len(codec.outs) :
              /\ codec.outs[j].kind = "some"
              /\ codec.outs[j].val = codec.trees[j]
              /\ codec.outs[j].buf.offset = SizeOfFirst(codec.trees, j)
        /\ (Len(codec.buf.data) - codec.buf.offset = 0) <=>
              (Len(codec.outs) = Len(codec.trees))

(* --------------------- the two profiles of the tree codec ------------- *)
Profiles == {"NetworkLittleEndian", "LittleEndian"}

\* impl Encoding for LittleEndian: write_int, write_long, write_string
LittleEndianWriteInt(val, buf) == Serialize("I32", "LE", val, buf)
LittleEndianWriteLong(val, buf) == Serialize("I64", "LE", val, buf)
LittleEndianWriteString(val, buf) ==
    WireWrite(Serialize("U16", "LE", Bits(Len(val) % 65536, 16), buf), val)

\* E::write_int, E::write_long, E::write_string for the profile E
WriteIntAs(E, val, buf) ==
    IF E = "NetworkLittleEndian" THEN WriteInt(val, buf) ELSE LittleEndianWriteInt(val, buf)
WriteLongAs(E, val, buf) ==
    IF E = "NetworkLittleEndian" THEN WriteLong(val, buf) ELSE LittleEndianWriteLong(val, buf)
WriteStringAs(E, val, buf) ==
    IF E = "NetworkLittleEndian" THEN WriteString(val, buf)
    ELSE LittleEndianWriteString(val, buf)

\* encode::<E>(nbt, buf) and its loops, for the profile E
RECURSIVE EncodeAs(_, _, _)
RECURSIVE EncodeItemsAs(_, _, _, _)
RECURSIVE EncodeEntriesAs(_, _, _, _)
RECURSIVE EncodeIntsAs(_, _, _, _)
RECURSIVE EncodeLongsAs(_, _, _, _)
EncodeAs(E, nbt, buf) ==
    CASE nbt.tag \in {"Byte", "Short", "Float", "Double"} ->
            WireWrite(buf, ToLeBytes(nbt.bits))
      [] nbt.tag = "Int" -> WriteIntAs(E, nbt.bits, buf)
      [] nbt.tag = "Long" -> WriteLongAs(E, nbt.bits, buf)
      [] nbt.tag = "ByteArray" ->
            WireWrite(WriteIntAs(E, Bits(Len(nbt.bytes), 32), buf), nbt.bytes)
      [] nbt.tag = "String" -> WriteStringAs(E, nbt.text, buf)
      [] nbt.tag = "List" ->
            EncodeItemsAs(E, nbt.items, 1,
                WriteIntAs(E, Bits(Len(nbt.items), 32), SerializeTag(nbt.elem, buf)))
      [] nbt.tag = "Compound" ->
            SerializeTag("End", EncodeEntriesAs(E, nbt.entries, 1, buf))
      [] nbt.tag = "IntArray" ->
            EncodeIntsAs(E, nbt.ints, 1, WriteIntAs(E, Bits(Len(nbt.ints), 32), buf))
      [] nbt.tag = "LongArray" ->
            EncodeLongsAs(E, nbt.longs, 1, WriteIntAs(E, Bits(Len(nbt.longs), 32), buf))
EncodeItemsAs(E, v, i, buf) ==
    IF i > Len(v) THEN buf
    ELSE AndThen(EncodeAs(E, v[i], buf), LAMBDA next : EncodeItemsAs(E, v, i + 1, next))
EncodeEntriesAs(E, v, i, buf) ==
    IF i > Len(v) THEN buf
    ELSE AndThen(EncodeAs(E, v[i].node,
                          WriteStringAs(E, v[i].name, SerializeTag(v[i].node.tag, buf))),
                 LAMBDA next : EncodeEntriesAs(E, v, i + 1, next))
EncodeIntsAs(E, v, i, buf) ==
    IF i > Len(v) THEN buf
    ELSE AndThen(WriteIntAs(E, v[i], buf), LAMBDA next : EncodeIntsAs(E, v, i + 1, next))
EncodeLongsAs(E, v, i, buf) ==
    IF i > Len(v) THEN buf
    ELSE AndThen(WriteLongAs(E, v[i], buf), LAMBDA next : EncodeLongsAs(E, v, i + 1, next))

\* one tree, encoded under each profile into a region of its own
InitProfiles ==
    /\ overflow_checks = FALSE
    /\ heap = <<>>
    /\ bufs = <<>>
    /\ panicked = FALSE
    /\ last = NoCall
    /\ steps = 0
    /\ \E t \in Trees(MaxDepth) \cup {AllKinds} :
          codec = [phase |-> "value", tree |-> t, done |-> {},
                   net |-> EmptyWire(NbtCap), sto |-> EmptyWire(NbtCap)]

\* encode::<NetworkLittleEndian>(&tree, &mut net)
EncodeNetwork ==
    /\ "NetworkLittleEndian" \notin codec.done
    /\ codec' = [codec EXCEPT
                    !.done = @ \cup {"NetworkLittleEndian"},
                    !.net = EncodeAs("NetworkLittleEndian", codec.tree, codec.net)]
    /\ UNCHANGED <<overflow_checks, heap, bufs, panicked, last, steps>>

\* encode::<LittleEndian>(&tree, &mut sto)
EncodeStorage ==
    /\ "LittleEndian" \notin codec.done
    /\ codec' = [codec EXCEPT
                    !.done = @ \cup {"LittleEndian"},
                    !.sto = EncodeAs("LittleEndian", codec.tree, codec.sto)]
    /\ UNCHANGED <<overflow_checks, heap, bufs, panicked, last, steps>>

NextProfiles == EncodeNetwork \/ EncodeStorage

SpecProfiles == InitProfiles /\ [][NextProfiles]_vars

\* ---- claims about the profiles
\* the bytes encode emits for a node under the profile E
BytesOf(E, nbt) == EncodeAs(E, nbt, EmptyWire(NbtCap)).data

\* the unsigned VarInt groups of u
VarIntBytes(u) == VarEmit(u, EmptyWire(NbtCap)).data

\* what the two profiles have for an Int or Long x, and for the length n of
\* a container or of a string
SignedBytes(E, x) ==
    IF E = "NetworkLittleEndian" THEN VarIntBytes(ZigZag(x)) ELSE ToLeBytes(x)
CountBytes(E, n) == SignedBytes(E, Bits(n, 32))
StringPrefixBytes(E, n) ==
    IF E = "NetworkLittleEndian" THEN VarIntBytes(Bits(n, 32)) ELSE ToLeBytes(Bits(n, 16))

\* the sequences of s one after the other
RECURSIVE Flatten(_)
Flatten(s) == IF s = <<>> THEN <<>> ELSE Head(s) \o Flatten(Tail(s))

\* the bytes of a node under E as the profiles lay them out, the bytes of
\* its children taken as encode emits them
Layout(E, nbt) ==
    CASE nbt.tag \in {"Byte", "Short", "Float", "Double"} -> ToLeBytes(nbt.bits)
      [] nbt.tag \in {"Int", "Long"} -> SignedBytes(E, nbt.bits)
      [] nbt.tag = "ByteArray" -> CountBytes(E, Len(nbt.bytes)) \o nbt.bytes
      [] nbt.tag = "String" -> StringPrefixBytes(E, Len(nbt.text)) \o nbt.text
      [] nbt.tag = "List" ->
            <<TagByte(nbt.elem)>> \o CountBytes(E, Len(nbt.items))
            \o Flatten([i \in 1..Len(nbt.items) |-> BytesOf(E, nbt.items[i])])
      [] nbt.tag = "Compound" ->
            Flatten([i \in 1..Len(nbt.entries) |->
                        <<TagByte(nbt.entries[i].node.tag)>>
                        \o StringPrefixBytes(E, Len(nbt.entries[i].name))
                        \o nbt.entries[i].name
                        \o BytesOf(E, nbt.entries[i].node)])
            \o <<0>>
      [] nbt.tag = "IntArray" ->
            CountBytes(E, Len(nbt.ints))
            \o Flatten([i \in 1..Len(nbt.ints) |-> SignedBytes(E, nbt.ints[i])])
      [] nbt.tag = "LongArray" ->
            CountBytes(E, Len(nbt.longs))
            \o Flatten([i \in 1..Len(nbt.longs) |-> SignedBytes(E, nbt.longs[i])])

\* C21: a Byte, Short, Float or Double node is emitted as its fixed-width
\* little-endian bytes, the same under the network and the storage profile;
\* the profiles differ only in Int and Long values, container lengths
\* (zigzag VarInt against 4 and 8 little-endian bytes) and string prefixes
\* (unsigned VarInt against 16 bits little-endian).
C21_ScalarsAreProfileIndependent ==
    codec.done = Profiles =>
        /\ codec.net.data = BytesOf("NetworkLittleEndian", codec.tree)
        /\ codec.net.data = Encode(codec.tree, EmptyWire(NbtCap)).data
        /\ codec.tree.tag \in {"Byte", "Short", "Float", "Double"} =>
              /\ codec.net.data = ToLeBytes(codec.tree.bits)
              /\ codec.sto.data = codec.net.data
        /\ codec.net.data = Layout("NetworkLittleEndian", codec.tree)
        /\ codec.sto.data = Layout("LittleEndian", codec.tree)

\* C22: after a split_at(index) that returned, with index < c, on a region
\* of capacity c and written length l, 0 <= l <= c (l = 0 and l <= index
\* included), the original has capacity index, length min(l, index) and
\* offset 0, and the split-off region has capacity c - index, length
\* l - min(l, index) and offset 0: the lengths sum to l and the capacities
\* to c.
C22_SplitDividesLengthAndCapacity ==
    (Called("split_at") /\ last.ok /\ last.n < last.pre.cap
        /\ last.pre.len <= last.pre.cap) =>
        LET kept == Min(last.pre.len, last.n) IN
        /\ Self.cap = last.n /\ Self.len = kept /\ Self.offset = 0
        /\ bufs[last.made].cap = last.pre.cap - last.n
        /\ bufs[last.made].len = last.pre.len - kept
        /\ bufs[last.made].offset = 0
        /\ Self.len + bufs[last.made].len = last.pre.len
        /\ Self.cap + bufs[last.made].cap = last.pre.cap

(* ------------------- lengths and counts read off the wire ------------- *)
\* the loop of Array::deserialize for B = U8, todo items still to read
RECURSIVE ArrayItems(_, _, _)
ArrayItems(todo, buf, vec) ==
    IF todo = 0 THEN Some(vec, buf)
    ELSE Try(U8Deserialize(buf),
             LAMBDA val : ArrayItems(todo - 1, val.buf, Append(vec, val.val)))

\* Array::<VarU32, U8>::deserialize
ArrayDeserialize(buf) ==
    Try(PrefixDecode(buf), LAMBDA len : ArrayItems(len.val, len.buf, <<>>))

\* largest count declared, and most bytes present after it
MaxCount == 3
MaxPresent == 3

\* the decoders that read a length or a count first: the arms of decode
\* (tag, and for a List the tag of its elements) and Array
LengthReaders ==
    {[codec |-> "decode", tag |-> t, elem |-> "End"] :
        t \in {"ByteArray", "IntArray", "LongArray", "String"}}
    \cup {[codec |-> "decode", tag |-> "List", elem |-> e] : e \in {"Byte", "Int"}}
    \cup {[codec |-> "Array", tag |-> "End", elem |-> "End"]}

\* a reader of a signed count (read_int) or of an unsigned prefix
SignedCount(reader) == reader.codec = "decode" /\ reader.tag # "String"

\* the counts an input declares: i32::MIN and -1 where the count is signed,
\* and 0 .. MaxCount
Counts(reader) ==
    {Bits(n, 32) : n \in 0..MaxCount}
    \cup (IF SignedCount(reader) THEN {TopBit(32), AllOnes(32)} ELSE {})

\* the input: for a List the tag of the elements, the count as the writer of
\* the profile emits it, then present bytes (each of them the byte 1)
LengthInput(reader, count, present) ==
    LET start == IF reader.tag = "List"
                 THEN SerializeTag(reader.elem, EmptyWire(WireCap))
                 ELSE EmptyWire(WireCap)
        counted == IF SignedCount(reader) THEN WriteInt(count, start)
                   ELSE VarU32Serialize(count, start)
    IN  WireFrom(counted.data \o [j \in 1..present |-> 1])

InitLengths ==
    /\ overflow_checks = FALSE
    /\ heap = <<>>
    /\ bufs = <<>>
    /\ panicked = FALSE
    /\ last = NoCall
    /\ steps = 0
    /\ \E reader \in LengthReaders, present \in 0..MaxPresent :
          \E count \in Counts(reader) :
              codec = [phase |-> "bytes", reader |-> reader, count |-> count,
                       present |-> present,
                       buf |-> LengthInput(reader, count, present),
                       out |-> None(EmptyWire(0))]

\* decode::<NetworkLittleEndian>(tag, &mut buffer)
DecodeCounted ==
    /\ codec.phase = "bytes" /\ codec.reader.codec = "decode"
    /\ codec' = [codec EXCEPT !.phase = "decoded",
                              !.out = Decode(codec.reader.tag, codec.buf)]
    /\ panicked' = (codec'.out.kind = "panic")
    /\ UNCHANGED <<overflow_checks, heap, bufs, last, steps>>

\* Array::<VarU32, U8>::deserialize(&mut buffer)
DecodeArray ==
    /\ codec.phase = "bytes" /\ codec.reader.codec = "Array"
    /\ codec' = [codec EXCEPT !.phase = "decoded", !.out = ArrayDeserialize(codec.buf)]
    /\ panicked' = (codec'.out.kind = "panic")
    /\ UNCHANGED <<overflow_checks, heap, bufs, last, steps>>

NextLengths == DecodeCounted \/ DecodeArray

SpecLengths == InitLengths /\ [][NextLengths]_vars

\* ---- claims about lengths
\* the number of items of the container the decoder returned
ItemsReturned ==
    LET v == codec.out.val IN
    CASE codec.reader.codec = "Array" -> Len(v)
      [] codec.reader.tag = "ByteArray" -> Len(v.bytes)
      [] codec.reader.tag = "IntArray" -> Len(v.ints)
      [] codec.reader.tag = "LongArray" -> Len(v.longs)
      [] codec.reader.tag = "String" -> Len(v.text)
      [] codec.reader.tag = "List" -> Len(v.items)

\* C23: a length or count read off the wire that is negative, or larger
\* than the number of bytes that remain after it, makes the decoder return
\* an absent result: it never aborts on a huge allocation, and it never
\* returns a container with more items than bytes were present.
C23_BadLengthIsAFailure ==
    codec.phase = "decoded" =>
        /\ (Negative(codec.count) \/ AsUsize(codec.count) > codec.present) =>
              codec.out.kind = "none"
        /\ codec.out.kind # "panic"
        /\ codec.out.kind = "some" => ItemsReturned <= codec.present

(* ------------------------- tag bytes off the wire --------------------- *)
\* the tag bytes tried: every tag, the first bytes that are no tag, and 255
TagBytes == 0..(Len(Tags) + 1) \cup {255}

\* the input of a root: tag byte, empty name, then present bytes; the input
\* of a List payload: element tag byte, count, then present bytes
TagInputs ==
    {[reader |-> "root", byte |-> b, count |-> Bits(0, 32), present |-> p,
      buf |-> WireFrom(<<b, 0>> \o [j \in 1..p |-> 1])] :
        b \in TagBytes, p \in 0..MaxPresent}
    \cup {[reader |-> "List", byte |-> b, count |-> c, present |-> p,
           buf |-> WireFrom(WriteInt(c, U8Serialize(b, EmptyWire(WireCap))).data
                            \o [j \in 1..p |-> 1])] :
             b \in TagBytes, p \in 0..MaxPresent,
             c \in {AllOnes(32)} \cup {Bits(n, 32) : n \in 0..MaxCount}}

InitTags ==
    /\ overflow_checks = FALSE
    /\ heap = <<>>
    /\ bufs = <<>>
    /\ panicked = FALSE
    /\ last = NoCall
    /\ steps = 0
    /\ \E input \in TagInputs :
          codec = [phase |-> "bytes", input |-> input, out |-> None(EmptyWire(0))]

\* RootNBT::<NetworkLittleEndian>::deserialize(&mut buffer)
DecodeRoot ==
    /\ codec.phase = "bytes" /\ codec.input.reader = "root"
    /\ codec' = [codec EXCEPT !.phase = "decoded",
                              !.out = RootDeserialize(codec.input.buf)]
    /\ panicked' = (codec'.out.kind = "panic")
    /\ UNCHANGED <<overflow_checks, heap, bufs, last, steps>>

\* decode::<NetworkLittleEndian>(Tag::List, &mut buffer)
DecodeList ==
    /\ codec.phase = "bytes" /\ codec.input.reader = "List"
    /\ codec' = [codec EXCEPT !.phase = "decoded",
                              !.out = Decode("List", codec.input.buf)]
    /\ panicked' = (codec'.out.kind = "panic")
    /\ UNCHANGED <<overflow_checks, heap, bufs, last, steps>>

NextTags == DecodeRoot \/ DecodeList

SpecTags == InitTags /\ [][NextTags]_vars

\* ---- claims about tags
\* C24: decode returns an absent result for a root whose tag byte is End,
\* for a List that declares the element tag End with a count other than 0,
\* and for a tag byte outside 0..12 in either place; a List with element
\* tag End and count 0 decodes, to the empty List.
C24_EndAsValueTagFails ==
    codec.phase = "decoded" =>
        LET byte == codec.input.byte
            zero == codec.input.count = Bits(0, 32)
        IN  /\ byte > 12 => codec.out.kind = "none"
            /\ (codec.input.reader = "root" /\ byte = 0) => codec.out.kind = "none"
            /\ (codec.input.reader = "List" /\ byte = 0 /\ ~zero) =>
                  codec.out.kind = "none"
            /\ (codec.input.reader = "List" /\ byte = 0 /\ zero) =>
                  /\ codec.out.kind = "some"
                  /\ codec.out.val = List("End", <<>>)

\* ---- claims about Compounds
\* a tree without the values of its leaves: tags, names and their order
RECURSIVE Outline(_)
Outline(t) ==
    CASE t.tag = "Compound" ->
            [tag |-> t.tag,
             entries |-> [i \in 1..Len(t.entries) |->
                            [name |-> t.entries[i].name,
                             node |-> Outline(t.entries[i].node)]]]
      [] t.tag = "List" ->
            [tag |-> t.tag,
             entries |-> [i \in 1..Len(t.items) |->
                            [name |-> <<>>, node |-> Outline(t.items[i])]]]
      [] OTHER -> [tag |-> t.tag, entries |-> <<>>]

\* every Compound of the tree, nested ones included, is emitted as its
\* entries in order, each as tag byte, name and value, and one End byte
RECURSIVE CompoundsLaidOut(_)
CompoundsLaidOut(t) ==
    CASE t.tag = "Compound" ->
            /\ BytesOf("NetworkLittleEndian", t) = Layout("NetworkLittleEndian", t)
            /\ \A i \in 1..Len(t.entries) : CompoundsLaidOut(t.entries[i].node)
      [] t.tag = "List" -> \A i \in 1..Len(t.items) : CompoundsLaidOut(t.items[i])
      [] OTHER -> TRUE

\* C25: a Compound with n entries is emitted as n triples (tag byte, name,
\* value) in insertion order and then one End byte; decode reads triples up
\* to the first End in tag position and consumes nothing after it, an End
\* closing only the innermost open Compound; a Compound whose input ends
\* before its End gives an absent result.
C25_CompoundFraming ==
    \A j \in 1..Len(codec.trees) :
        codec.trees[j].tag = "Compound" =>
            /\ (codec.wrote >= j /\ codec.phase \in {"value", "written", "reading"}) =>
                  /\ CompoundsLaidOut(codec.trees[j])
                  /\ SubSeq(codec.buf.data, SizeOfFirst(codec.trees, j - 1) + 1,
                            SizeOfFirst(codec.trees, j))
                        = <<TagByte("Compound"), 0>>
                          \o Layout("NetworkLittleEndian", codec.trees[j])
            /\ (codec.phase = "reading" /\ Len(codec.outs) >= j) =>
                  /\ codec.outs[j].kind = "some"
                  /\ Outline(codec.outs[j].val) = Outline(codec.trees[j])
                  /\ codec.outs[j].buf.offset = SizeOfFirst(codec.trees, j)
            /\ codec.phase = "cut read" => codec.outs[j].kind = "none"

(* ---------------- unsigned VarInt at the group boundaries -------------- *)
UnsignedVarTypes == {"VarU32", "VarU64"}

\* 2^k - 1 and 2^k at width w: the values at which the number of groups grows
LowOnes(k, w) == [i \in 1..w |-> IF i <= k THEN 1 ELSE 0]
OneBit(k, w) == [i \in 1..w |-> IF i = k + 1 THEN 1 ELSE 0]
GroupBoundaries(w) ==
    {LowOnes(k, w) : k \in 0..w} \cup {OneBit(k, w) : k \in 0..(w - 1)}

InitGroups ==
    /\ overflow_checks = FALSE
    /\ heap = <<>>
    /\ bufs = <<>>
    /\ panicked = FALSE
    /\ last = NoCall
    /\ steps = 0
    /\ \E ty \in UnsignedVarTypes :
       \E v \in GroupBoundaries(Width(ty)) \cup SampleValues(ty) :
          codec = [phase |-> "value", ty |-> ty, order |-> "LE", val |-> v,
                   buf |-> EmptyWire(WireCap), out |-> None(EmptyWire(WireCap))]

NextGroups == DoSerialize \/ DoDeserialize

SpecGroups == InitGroups /\ [][NextGroups]_vars

\* ---- claim C26
\* the i-th 7-bit group of v, i counted from 0
BitAt(v, k) == IF k <= Len(v) THEN v[k] ELSE 0
GroupAt(v, i) ==
    BitAt(v, 7 * i + 1) + 2 * BitAt(v, 7 * i + 2) + 4 * BitAt(v, 7 * i + 3)
    + 8 * BitAt(v, 7 * i + 4) + 16 * BitAt(v, 7 * i + 5)
    + 32 * BitAt(v, 7 * i + 6) + 64 * BitAt(v, 7 * i + 7)

\* the least number of groups, at least one, that hold every set bit of v
GroupCount(v) ==
    CHOOSE n \in 1..(Len(v) \div 7 + 1) :
        /\ \A k \in (7 * n + 1)..Len(v) : v[k] = 0
        /\ \A m \in 1..(n - 1) : \E k \in (7 * m + 1)..Len(v) : v[k] = 1

\* the groups of v, low-order group first, 0x80 on all but the last
GroupBytes(v) ==
    [g \in 1..GroupCount(v) |->
        GroupAt(v, g - 1) + (IF g < GroupCount(v) THEN 128 ELSE 0)]

\* group i of the bytes, without its continuation bit, shifted left by 7 * i
RECURSIVE Accumulated(_, _, _)
Accumulated(bytes, i, w) ==
    IF i = 0 THEN Bits(0, w)
    ELSE Or(Accumulated(bytes, i - 1, w),
            Shl(Bits(bytes[i] % 128, w), 7 * (i - 1)))

\* C26: the unsigned VarInt encoding of a 32-bit or 64-bit value v is its
\* 7-bit groups, low-order group first, every group but the last with 0x80
\* and the last without it, in the least number of groups (one below 0x80,
\* at most 5 for 32 bits and 10 for 64 bits); decoding those bytes
\* accumulates group i shifted left by 7 * i and returns v.
C26_UnsignedVarIntGroups ==
    (codec.ty \in UnsignedVarTypes /\ codec.phase \in {"written", "read"}) =>
        LET wire == codec.buf.data IN
        /\ wire = GroupBytes(codec.val)
        /\ \A g \in 1..Len(wire) : (wire[g] >= 128) <=> (g < Len(wire))
        /\ Len(wire) <= GroupBound(codec.ty)
        /\ (Len(wire) = 1) <=> (\A k \in 8..Len(codec.val) : codec.val[k] = 0)
        /\ Len(wire) > 1 => wire[Len(wire)] # 0
        /\ codec.phase = "read" =>
              /\ codec.out.kind = "some"
              /\ codec.out.val = codec.val
              /\ codec.out.val = Accumulated(wire, Len(wire), Width(codec.ty))
              /\ codec.buf.offset = Len(wire)
              /\ ~panicked

\* a 64-bit value of ten groups and a 32-bit value of five were written and read back
C26_Witness ==
    /\ codec.phase = "read"
    /\ codec.ty \in UnsignedVarTypes
    /\ Len(codec.buf.data) = GroupBound(codec.ty)
    /\ codec.val = AllOnes(Width(codec.ty))
    /\ codec.out.kind = "some"
    /\ codec.out.val = codec.val

\* ---- claim C27
\* C27: the owning region releases its allocation with the size the
\* allocation was created with, also after split_at calls have shrunk the
\* region's recorded capacity to the split index.
C27_ReleaseWithAllocatedSize ==
    \A a \in 1..Len(heap) :
        heap[a].released >= 1 => heap[a].relsize = heap[a].size

====
